---- MODULE Spec2Model ----
(***************************************************************************)
(* Model of the xqemu manager (src/main.py): the Xqemu supervisor object,  *)
(* the MainWindow handlers that drive it, and the environment they talk to *)
(* (the filesystem, the child process and its QMP listener).               *)
(*                                                                         *)
(* The GUI is single threaded: handlers run to completion one at a time.   *)
(* Xqemu.start() is split at its blocking points (each path check, the     *)
(* spawn, each iteration of the connect loop); pc records where it is and  *)
(* no other handler runs until pc is back to "idle".                       *)
(***************************************************************************)
EXTENDS Integers, Sequences, FiniteSets, TLC

VARIABLES
    p,          \* Xqemu._p: None or the identity of the spawned child
    qmp,        \* Xqemu._qmp: None or the QEMUMonitorProtocol object
    settings,   \* SettingsManager.settings
    runLabel,   \* runButton text
    pauseLabel, \* pauseButton text
    pc,         \* position of the GUI thread: "idle", inside start(), "exited"
    k,          \* start(): number of check_path calls that returned
    i,          \* start(): the connect loop's counter
    cmd,        \* start(): the built command line
    spawned,    \* environment: number of children created so far
    termCount,  \* environment: terminate requests received by each child
    emuPaused,  \* environment: the emulator's paused/running status
    peerOpen,   \* environment: the QMP peer of the connected client answers
    handler,    \* history: the handler that ran last (or is running)
    trace,      \* history: what that handler did, in order
    err,        \* history: the exception that handler ended with, <<>> if none
    toggleHist  \* history: emulator status around consecutive applied toggles

vars == <<p, qmp, settings, runLabel, pauseLabel, pc, k, i, cmd, spawned,
          termCount, emuPaused, peerOpen, handler, trace, err, toggleHist>>

\* Bound of the model: children spawned over one run of the application.
MaxSpawns == 2

\* None, for _p (children are numbered from 1) and for _qmp (a client object
\* remembers the child it was created for and whether connect() succeeded)
None == 0

NoQmp == [owner |-> 0, connected |-> FALSE]

\* `if i > 4: raise` in the connect loop.
LastRetryIndex == 4

----------------------------------------------------------------------------
\* Settings

DefaultSettings ==
    [xqemu_path  |-> "/path/to/xqemu",
     mcpx_path   |-> "/path/to/mcpx.bin",
     flash_path  |-> "/path/to/flash.bin",
     hdd_path    |-> "/path/to/hdd.img",
     hdd_locked  |-> TRUE,
     dvd_present |-> TRUE,
     dvd_path    |-> "/path/to/disc.iso",
     short_anim  |-> FALSE]

\* What the settings dialog is used for here: the three check boxes and the
\* disc path.
DvdPaths == {"/path/to/disc.iso", "/other/disc.iso"}

SettingsSpace ==
    {[DefaultSettings EXCEPT !.hdd_locked = hl, !.dvd_present = dp,
                             !.dvd_path = dv, !.short_anim = sa] :
        hl \in BOOLEAN, dp \in BOOLEAN, dv \in DvdPaths, sa \in BOOLEAN}

----------------------------------------------------------------------------
\* History records

NoReq == [execute |-> "", arguments |-> {}]

NoResp == [kind |-> "None", status |-> ""]

Event(ev, arg, res) ==
    [ev |-> ev, arg |-> arg, res |-> res, out |-> "", req |-> NoReq, resp |-> NoResp]

NoError == <<>>

Count(tr, ev) == Cardinality({n \in 1..Len(tr) : tr[n].ev = ev})

----------------------------------------------------------------------------
\* Xqemu.start: validation and command line

\* os.path.exists / os.path.isdir as the filesystem answers at the call
FsKinds == {"file", "dir", "missing"}

\* Variant: a directory is accepted
check_path_ok_dirs(kind) == kind # "missing"

\* check_path raises unless the path exists and is not a directory
check_path_ok(kind) == ~(kind = "missing" \/ kind = "dir")

\* The order of the check_path calls; the fifth only if dvd_present.
CheckOrder == <<"xqemu_path", "mcpx_path", "flash_path", "hdd_path", "dvd_path">>

\* Variant: the disc path is never checked
NumChecks_nodvd(s) == 4

NumChecks(s) == IF s.dvd_present THEN 5 ELSE 4

NotFoundError(path) == <<"File ", path, " could not be found!">>

\* Variant: the disc image is passed whether or not a disc is present
BuildCmd_alwaysdvd(s) ==
    LET short_anim_arg == IF s.short_anim THEN ",short_animation" ELSE ""
        hdd_lock_arg   == IF s.hdd_locked THEN ",locked" ELSE ""
        dvd_path_arg   == <<",file=", s.dvd_path>>
    IN  << <<s.xqemu_path>>,
           <<"-cpu">>, <<"pentium3">>,
           <<"-machine">>, <<"xbox,bootrom=", s.mcpx_path, short_anim_arg>>,
           <<"-m">>, <<"64">>,
           <<"-bios">>, <<s.flash_path>>,
           <<"-net">>, <<"nic,model=nvnet">>,
           <<"-net">>, <<"user">>,
           <<"-drive">>, <<"file=", s.hdd_path, ",index=0,media=disk", hdd_lock_arg>>,
           <<"-drive">>, <<"index=1,media=cdrom">> \o dvd_path_arg,
           <<"-qmp">>, <<"tcp:localhost:4444,server,nowait">> >>

\* Each argument is the sequence of the fragments the % formatting joins.
BuildCmd(s) ==
    LET short_anim_arg == IF s.short_anim THEN ",short_animation" ELSE ""
        hdd_lock_arg   == IF s.hdd_locked THEN ",locked" ELSE ""
        dvd_path_arg   == IF s.dvd_present THEN <<",file=", s.dvd_path>> ELSE <<"">>
    IN  << <<s.xqemu_path>>,
           <<"-cpu">>, <<"pentium3">>,
           <<"-machine">>, <<"xbox,bootrom=", s.mcpx_path, short_anim_arg>>,
           <<"-m">>, <<"64">>,
           <<"-bios">>, <<s.flash_path>>,
           <<"-net">>, <<"nic,model=nvnet">>,
           <<"-net">>, <<"user">>,
           <<"-drive">>, <<"file=", s.hdd_path, ",index=0,media=disk", hdd_lock_arg>>,
           <<"-drive">>, <<"index=1,media=cdrom">> \o dvd_path_arg,
           <<"-qmp">>, <<"tcp:localhost:4444,server,nowait">> >>

----------------------------------------------------------------------------
\* Xqemu properties and the QMP client

\* Variants: the property ignores the handle
isRunning_never == FALSE

isRunning_always == TRUE

\* Variant: the property also looks at the state of the peer
isRunning_live == p # None /\ peerOpen

isRunning == p # None

\* The client answers only if its connect() succeeded and the peer is there.
Responsive == qmp # NoQmp /\ qmp.connected /\ peerOpen

StatusOf(paused) == IF paused THEN "paused" ELSE "running"

\* QEMUMonitorProtocol.cmd_obj: the response object read from the stream, or
\* None when there is none.  The peer may go away at any moment; query-status
\* always returns, the other commands may be answered by an error object.
CmdReplies(name) ==
    {NoResp} \cup
    (IF Responsive
     THEN {[kind |-> "return",
            status |-> IF name = "query-status" THEN StatusOf(emuPaused) ELSE ""]}
          \cup (IF name = "query-status" THEN {} ELSE {[kind |-> "error", status |-> ""]})
     ELSE {})

\* run_cmd, the str case: wrap the name in a request object
Wrap(name) == [execute |-> name, arguments |-> {}]

\* Variant: the file name is left out
ScreenshotReq_noargs == [execute |-> "screendump", arguments |-> {}]

ScreenshotReq == [execute |-> "screendump",
                  arguments |-> {<<"filename", "screenshot.ppm">>}]

\* Variant: a missing response is returned to the caller
RunCmd_noraise(req, resp) ==
    [ev   |-> "run_cmd",
     arg  |-> req.execute,
     res  |-> resp.kind,
     out  |-> "value",
     req  |-> req,
     resp |-> resp]

\* run_cmd after the wrapping: raise on None, else return the response
RunCmd(req, resp) ==
    [ev   |-> "run_cmd",
     arg  |-> req.execute,
     res  |-> resp.kind,
     out  |-> IF resp = NoResp THEN "Disconnected!" ELSE "value",
     req  |-> req,
     resp |-> resp]

Raised(r) == r.out # "value"

\* Variant: the two branches exchanged
ToggleCommand_swapped(paused) == IF paused THEN "stop" ELSE "cont"

\* onPauseButtonClicked: cont if isPaused() else pause
ToggleCommand(paused) == IF paused THEN "cont" ELSE "stop"

ErrorOf(r) == IF Raised(r) THEN <<r.out>> ELSE NoError

LiveChildren == {c \in 1..spawned : termCount[c] = 0}

----------------------------------------------------------------------------
Init ==
    /\ p = None
    /\ qmp = NoQmp
    /\ settings \in SettingsSpace
    /\ runLabel = "Start"
    /\ pauseLabel = "Pause"
    /\ pc = "idle"
    /\ k = 0
    /\ i = 0
    /\ cmd = <<>>
    /\ spawned = 0
    /\ termCount = [c \in 1..MaxSpawns |-> 0]
    /\ emuPaused = FALSE
    /\ peerOpen = FALSE
    /\ handler = "init"
    /\ trace = <<>>
    /\ err = NoError
    /\ toggleHist = <<>>

\* Variant: the handle is kept after terminate()
stop_noclear(tr) ==
    IF p # None
    THEN /\ termCount' = [termCount EXCEPT ![p] = @ + 1]
         /\ p' = p
         /\ peerOpen' = FALSE
         /\ trace' = Append(tr, Event("terminate", "", ""))
    ELSE /\ UNCHANGED <<termCount, p, peerOpen>>
         /\ trace' = tr

\* Xqemu.stop, appended to what the handler did so far
stop(tr) ==
    IF p # None
    THEN /\ termCount' = [termCount EXCEPT ![p] = @ + 1]
         /\ p' = None
         /\ peerOpen' = FALSE
         /\ trace' = Append(tr, Event("terminate", "", ""))
    ELSE /\ UNCHANGED <<termCount, p, peerOpen>>
         /\ trace' = tr

\* onRunButtonClicked: stop if an instance exists, else enter start()
onRunButtonClicked ==
    /\ pc = "idle"
    /\ handler' = "run"
    /\ err' = NoError
    /\ toggleHist' = <<>>
    /\ IF ~isRunning
       THEN /\ spawned < MaxSpawns
            /\ pc' = "check"
            /\ k' = 0
            /\ trace' = <<Event("start", "", "")>>
            /\ UNCHANGED <<p, qmp, settings, runLabel, pauseLabel, i, cmd,
                           spawned, termCount, emuPaused, peerOpen>>
       ELSE /\ stop(<<>>)
            /\ runLabel' = "Start"
            /\ UNCHANGED <<qmp, settings, pauseLabel, pc, k, i, cmd, spawned,
                           emuPaused>>

\* start(): one check_path call; after the last one the command is built
CheckStep ==
    /\ pc = "check"
    /\ \E kind \in FsKinds :
        LET field == CheckOrder[k + 1] IN
        /\ trace' = Append(trace, Event("check", field, kind))
        /\ IF check_path_ok(kind)
           THEN /\ k' = k + 1
                /\ err' = err
                /\ IF k + 1 = NumChecks(settings)
                   THEN pc' = "spawn" /\ cmd' = BuildCmd(settings)
                   ELSE pc' = "check" /\ cmd' = cmd
           ELSE /\ err' = NotFoundError(settings[field])
                /\ pc' = "idle"
                /\ k' = 0
                /\ cmd' = cmd
    /\ UNCHANGED <<p, qmp, settings, runLabel, pauseLabel, i, spawned,
                   termCount, emuPaused, peerOpen, handler, toggleHist>>

\* start(): self._p = subprocess.Popen(cmd); i = 0
SpawnStep ==
    /\ pc = "spawn"
    /\ \E ok \in BOOLEAN :
        /\ trace' = Append(trace, Event("spawn", "", IF ok THEN "ok" ELSE "raise"))
        /\ IF ok
           THEN /\ spawned' = spawned + 1
                /\ p' = spawned + 1
                /\ emuPaused' = FALSE
                /\ i' = 0
                /\ pc' = "connect"
                /\ err' = err
           ELSE /\ err' = <<"Popen failed">>
                /\ pc' = "idle"
                /\ UNCHANGED <<spawned, p, emuPaused, i>>
    /\ k' = 0
    /\ cmd' = <<>>
    /\ UNCHANGED <<qmp, settings, runLabel, pauseLabel, termCount, peerOpen,
                   handler, toggleHist>>

\* Variant: sleep before every attempt
SleepBefore_always(n) == n >= 0

\* `if i > 0: time.sleep(1)`
SleepBefore(n) == n > 0

\* Variant: one more retry before giving up
GiveUp_late(n) == n > LastRetryIndex + 1

\* `if i > 4: raise`
GiveUp(n) == n > LastRetryIndex

\* Variant: the handle is dropped when the loop gives up
ConnectStep_drops ==
    /\ pc = "connect"
    /\ \E ok \in BOOLEAN :
        LET slept == IF i > 0 THEN Append(trace, Event("sleep", "", "")) ELSE trace IN
        /\ trace' = Append(slept, Event("connect", "", IF ok THEN "ok" ELSE "refused"))
        /\ qmp' = IF ~ok /\ i > LastRetryIndex THEN NoQmp ELSE [owner |-> p, connected |-> ok]
        /\ p' = IF ~ok /\ i > LastRetryIndex THEN None ELSE p
        /\ IF ok
           THEN /\ pc' = "idle"
                /\ i' = 0
                /\ peerOpen' = TRUE
                /\ runLabel' = "Stop"
                /\ err' = err
           ELSE /\ peerOpen' = peerOpen
                /\ runLabel' = runLabel
                /\ IF i > LastRetryIndex
                   THEN pc' = "idle" /\ i' = 0 /\ err' = <<"connect failed">>
                   ELSE pc' = "connect" /\ i' = i + 1 /\ err' = err
    /\ UNCHANGED <<settings, pauseLabel, k, cmd, spawned, termCount,
                   emuPaused, handler, toggleHist>>

\* start(): one iteration of the connect loop
ConnectStep ==
    /\ pc = "connect"
    /\ \E ok \in BOOLEAN :
        LET slept == IF SleepBefore(i) THEN Append(trace, Event("sleep", "", "")) ELSE trace IN
        /\ trace' = Append(slept, Event("connect", "", IF ok THEN "ok" ELSE "refused"))
        /\ qmp' = [owner |-> p, connected |-> ok]
        /\ IF ok
           THEN /\ pc' = "idle"
                /\ i' = 0
                /\ peerOpen' = TRUE
                /\ runLabel' = "Stop"
                /\ err' = err
           ELSE /\ peerOpen' = peerOpen
                /\ runLabel' = runLabel
                /\ IF GiveUp(i)
                   THEN pc' = "idle" /\ i' = 0 /\ err' = <<"connect failed">>
                   ELSE pc' = "connect" /\ i' = i + 1 /\ err' = err
    /\ UNCHANGED <<p, settings, pauseLabel, k, cmd, spawned, termCount,
                   emuPaused, handler, toggleHist>>

\* onPauseButtonClicked
onPauseButtonClicked ==
    /\ pc = "idle"
    /\ handler' = "pause"
    /\ UNCHANGED <<p, qmp, settings, runLabel, pc, k, i, cmd, spawned, termCount>>
    /\ IF ~isRunning
       THEN /\ trace' = <<>>
            /\ err' = NoError
            /\ toggleHist' = <<>>
            /\ UNCHANGED <<pauseLabel, emuPaused, peerOpen>>
       ELSE \E r1 \in CmdReplies("query-status") :
            LET q == RunCmd(Wrap("query-status"), r1) IN
            IF Raised(q)
            THEN /\ trace' = <<q>>
                 /\ err' = ErrorOf(q)
                 /\ peerOpen' = FALSE
                 /\ toggleHist' = <<>>
                 /\ UNCHANGED <<pauseLabel, emuPaused>>
            ELSE LET paused == q.resp.status = "paused"
                     name   == ToggleCommand(paused)
                 IN  \E r2 \in CmdReplies(name) :
                     LET c == RunCmd(Wrap(name), r2)
                         applied == r2.kind = "return"
                     IN  /\ trace' = <<q, c>>
                         /\ err' = ErrorOf(c)
                         /\ peerOpen' = (r2 # NoResp)
                         /\ emuPaused' = IF applied THEN (name = "stop") ELSE emuPaused
                         /\ pauseLabel' = IF Raised(c) THEN pauseLabel
                                          ELSE IF paused THEN "Pause" ELSE "Continue"
                         /\ toggleHist' =
                              IF ~applied THEN <<>>
                              ELSE IF toggleHist = <<>> THEN <<emuPaused, emuPaused'>>
                              ELSE IF Len(toggleHist) = 2 THEN Append(toggleHist, emuPaused')
                              ELSE <<toggleHist[2], toggleHist[3], emuPaused'>>

\* `if not self.inst.isRunning: return`
ReturnEarly ==
    /\ trace' = <<>>
    /\ err' = NoError
    /\ UNCHANGED <<peerOpen>>

\* One run_cmd call made by a handler that does nothing else
Call(req) ==
    \E r \in CmdReplies(req.execute) :
        LET c == RunCmd(req, r) IN
        /\ trace' = <<c>>
        /\ err' = ErrorOf(c)
        /\ peerOpen' = (r # NoResp)

\* Xqemu.screenshot
screenshot == Call(ScreenshotReq)

\* Xqemu.restart
restart == Call(Wrap("system_reset"))

onScreenshotButtonClicked ==
    /\ pc = "idle"
    /\ handler' = "screenshot"
    /\ toggleHist' = <<>>
    /\ IF ~isRunning THEN ReturnEarly ELSE screenshot
    /\ UNCHANGED <<p, qmp, settings, runLabel, pauseLabel, pc, k, i, cmd,
                   spawned, termCount, emuPaused>>

\* Variant: a failed command makes the supervisor forget the process
onRestartButtonClicked_forgets ==
    /\ pc = "idle"
    /\ handler' = "restart"
    /\ toggleHist' = <<>>
    /\ IF ~isRunning THEN ReturnEarly ELSE restart
    /\ p' = IF err' # NoError THEN None ELSE p
    /\ UNCHANGED <<qmp, settings, runLabel, pauseLabel, pc, k, i, cmd,
                   spawned, termCount, emuPaused>>

onRestartButtonClicked ==
    /\ pc = "idle"
    /\ handler' = "restart"
    /\ toggleHist' = <<>>
    /\ IF ~isRunning THEN ReturnEarly ELSE restart
    /\ UNCHANGED <<p, qmp, settings, runLabel, pauseLabel, pc, k, i, cmd,
                   spawned, termCount, emuPaused>>

\* onSettingsClicked: the dialog edits the settings, then they are saved
onSettingsClicked ==
    /\ pc = "idle"
    /\ \E s \in SettingsSpace : settings' = s
    /\ handler' = "settings"
    /\ trace' = <<>>
    /\ err' = NoError
    /\ toggleHist' = <<>>
    /\ UNCHANGED <<p, qmp, runLabel, pauseLabel, pc, k, i, cmd, spawned,
                   termCount, emuPaused, peerOpen>>

\* Variant: the application exits without stopping the instance
onExitClicked_nostop ==
    /\ pc = "idle"
    /\ trace' = <<>>
    /\ pc' = "exited"
    /\ handler' = "exit"
    /\ err' = NoError
    /\ toggleHist' = <<>>
    /\ UNCHANGED <<p, qmp, settings, runLabel, pauseLabel, k, i, cmd, spawned,
                   termCount, emuPaused, peerOpen>>

\* onExitClicked: stop, then sys.exit(0)
onExitClicked ==
    /\ pc = "idle"
    /\ stop(<<>>)
    /\ pc' = "exited"
    /\ handler' = "exit"
    /\ err' = NoError
    /\ toggleHist' = <<>>
    /\ UNCHANGED <<qmp, settings, runLabel, pauseLabel, k, i, cmd, spawned,
                   emuPaused>>

\* Environment: the emulator closes the control connection (or exits)
PeerCloses ==
    /\ pc = "idle"
    /\ peerOpen
    /\ peerOpen' = FALSE
    /\ toggleHist' = <<>>
    /\ UNCHANGED <<p, qmp, settings, runLabel, pauseLabel, pc, k, i, cmd,
                   spawned, termCount, emuPaused, handler, trace, err>>

Next ==
    \/ onRunButtonClicked
    \/ CheckStep
    \/ SpawnStep
    \/ ConnectStep
    \/ onPauseButtonClicked
    \/ onScreenshotButtonClicked
    \/ onRestartButtonClicked
    \/ onSettingsClicked
    \/ onExitClicked
    \/ PeerCloses

Spec == Init /\ [][Next]_vars

\* start() blocks the GUI thread and runs on: each of its steps is taken
FairSpec ==
    /\ Spec
    /\ WF_vars(CheckStep)
    /\ WF_vars(SpawnStep)
    /\ WF_vars(ConnectStep)

----------------------------------------------------------------------------
\* Vocabulary of the properties

\* The last handler called start()
StartCalled == handler = "run" /\ trace # <<>> /\ trace[1].ev = "start"

StartReturned == StartCalled /\ pc = "idle"

StartFailed == StartReturned /\ err # NoError

StartSucceeded == StartReturned /\ err = NoError

Attempts == Count(trace, "connect")

Delays == Count(trace, "sleep")

\* The connect loop ran out of attempts
ConnectExhausted ==
    StartFailed /\ trace[Len(trace)].ev = "connect" /\ trace[Len(trace)].res = "refused"

\* The path fields that must exist under the current flags
ActiveFields(s) ==
    {"xqemu_path", "mcpx_path", "flash_path", "hdd_path"}
        \cup (IF s.dvd_present THEN {"dvd_path"} ELSE {})

Disconnected == <<"Disconnected!">>

----------------------------------------------------------------------------
\* C1: whenever start() has failed (path check, spawn, or connect after the
\* retries), the supervisor is Stopped: isRunning is false and neither a
\* process handle nor a connection object is retained.
C1_FailedStartIsStopped ==
    StartFailed => (~isRunning /\ p = None /\ qmp = NoQmp)

\* C2: when the listener is never reachable, start() fails after exactly 5
\* connection attempts, with the error of the last one.
C2_ExactlyFiveAttempts ==
    ConnectExhausted => (Attempts = 5 /\ err = <<"connect failed">>)

\* C3: in a start() call no delay precedes the first connection attempt and
\* exactly one delay precedes each later one, so a start() that succeeds on
\* the Nth attempt has performed exactly N-1 delays.
C3_DelaysBeforeLaterAttempts ==
    StartCalled =>
        /\ \A n \in 1..Len(trace) :
              trace[n].ev = "connect" =>
                 IF \E m \in 1..(n - 1) : trace[m].ev = "connect"
                 THEN trace[n - 1].ev = "sleep" /\ trace[n - 2].ev = "connect"
                 ELSE trace[n - 1].ev # "sleep"
        /\ \A n \in 1..Len(trace) :
              trace[n].ev = "sleep" => n < Len(trace) /\ trace[n + 1].ev = "connect"
        /\ (StartSucceeded => Attempts >= 1 /\ Delays = Attempts - 1)

C3_Witness ==
    /\ StartSucceeded
    /\ Attempts = 5
    /\ Delays = 4
    /\ qmp.connected

\* C4: a child is only ever spawned while no process handle is owned, and at
\* most one spawned and not terminated child exists at any time.
C4_NoSecondSpawn ==
    /\ [](Cardinality(LiveChildren) <= 1)
    /\ [][spawned' > spawned => p = None]_vars

\* A second child was started, after the first was stopped
C4_Witness ==
    /\ spawned = 2
    /\ p = 2
    /\ LiveChildren = {2}

\* C5: a connection object is held only while a process handle is held; in
\* particular after stop() both are cleared.
C5_ConnectionOnlyWithHandle ==
    qmp # NoQmp => p # None

\* C6 as stated: a pause toggle with a process owned sends query-status and
\* then exactly one further command, chosen by the reported status.
C6_ToggleAlwaysSendsTwo ==
    (handler = "pause" /\ p # None) =>
        /\ Len(trace) = 2
        /\ trace[1].req = Wrap("query-status")
        /\ trace[2].req = Wrap(IF trace[1].resp.status = "paused" THEN "cont" ELSE "stop")

\* C6 amended: a pause toggle with a process owned sends query-status; when
\* a status reply is received it sends exactly one further command ("stop" if
\* not paused, "cont" if paused); when no status reply is received it fails
\* with an error and sends nothing further.  Two consecutive toggles that the
\* emulator applied leave its status where it was.
C6_ToggleSendsTwoOnReply ==
    /\ (handler = "pause" /\ p # None) =>
          /\ Len(trace) >= 1
          /\ trace[1].req = Wrap("query-status")
          /\ IF trace[1].resp.kind = "return"
             THEN /\ Len(trace) = 2
                  /\ trace[2].req =
                        Wrap(IF trace[1].resp.status = "paused" THEN "cont" ELSE "stop")
             ELSE /\ Len(trace) = 1
                  /\ err # NoError
    /\ Len(toggleHist) >= 2 => toggleHist[2] # toggleHist[1]
    /\ Len(toggleHist) = 3 => toggleHist[3] = toggleHist[1]

\* Two consecutive toggles were applied: pause, then continue
C6_Witness ==
    /\ handler = "pause"
    /\ p # None
    /\ Len(trace) = 2
    /\ trace[2].req = Wrap("cont")
    /\ toggleHist = <<FALSE, TRUE, FALSE>>

\* A step in which stop() is called: the Exit action, or the run button while
\* an instance exists (start() is the only call that leaves "idle")
StopCalled ==
    \/ onExitClicked
    \/ onRunButtonClicked /\ pc' = "idle"

\* C7: stop() with no handle owned requests no termination, raises nothing
\* and leaves the supervisor as it was; stop() with a handle owned sends
\* exactly one terminate request, to the owned process, and clears the handle.
C7_StopIdempotent ==
    [][StopCalled =>
          IF p = None
          THEN /\ UNCHANGED <<p, qmp, termCount, spawned, emuPaused, peerOpen>>
               /\ err' = NoError
               /\ Count(trace', "terminate") = 0
          ELSE /\ termCount' = [termCount EXCEPT ![p] = termCount[p] + 1]
               /\ p' = None
               /\ err' = NoError
               /\ Count(trace', "terminate") = 1]_vars

\* stop() was called at exit after the run button had already stopped the child
C7_Witness ==
    /\ handler = "exit"
    /\ trace = <<>>
    /\ p = None
    /\ spawned = 1
    /\ termCount[1] = 1

\* C8: with no handle owned, a pause-toggle, restart or screenshot request
\* sends nothing, raises nothing and changes no state.
C8_StoppedRequestsAreNoOps ==
    [][(p = None /\ (\/ onPauseButtonClicked
                     \/ onRestartButtonClicked
                     \/ onScreenshotButtonClicked)) =>
          /\ trace' = <<>>
          /\ err' = NoError
          /\ UNCHANGED <<p, qmp, settings, runLabel, pauseLabel, pc, spawned,
                         termCount, emuPaused, peerOpen>>]_vars

\* A screenshot request after the instance was stopped
C8_Witness ==
    /\ handler = "screenshot"
    /\ pc = "idle"
    /\ p = None
    /\ qmp # NoQmp
    /\ trace = <<>>

\* C9: in a start() call the spawn comes only after every active path was
\* checked and found to be a file, with no failed check before it, and a
\* connection attempt comes only after a spawn that succeeded.
C9_ValidateSpawnConnect ==
    StartCalled =>
        \A n \in 1..Len(trace) :
            /\ trace[n].ev = "spawn" =>
                  /\ \A f \in ActiveFields(settings) :
                        \E m \in 1..(n - 1) :
                            trace[m].ev = "check" /\ trace[m].arg = f /\ trace[m].res = "file"
                  /\ \A m \in 1..(n - 1) :
                        trace[m].ev = "check" => trace[m].res = "file"
                  /\ \A m \in 1..(n - 1) : trace[m].ev # "connect"
            /\ trace[n].ev = "connect" =>
                  \E m \in 1..(n - 1) : trace[m].ev = "spawn" /\ trace[m].res = "ok"
            /\ (trace[n].ev = "check" /\ trace[n].res # "file") =>
                  /\ n = Len(trace)
                  /\ StartFailed
                  /\ Count(trace, "spawn") = 0

\* A start() with the disc present that went through all three stages
C9_Witness ==
    /\ StartReturned
    /\ settings.dvd_present
    /\ Count(trace, "check") = 5
    /\ Count(trace, "spawn") = 1
    /\ Attempts >= 1

\* C10: a run_cmd call that got no response ends the handler with the
\* 'Disconnected!' error and returns nothing; a value is returned only when a
\* response object was received.
C10_NoResponseRaisesDisconnected ==
    \A n \in 1..Len(trace) :
        trace[n].ev = "run_cmd" =>
            /\ trace[n].resp = NoResp =>
                  /\ trace[n].out = "Disconnected!"
                  /\ n = Len(trace)
                  /\ err = Disconnected
            /\ trace[n].out = "value" => trace[n].resp.kind \in {"return", "error"}

\* A screenshot request whose command got no response
C10_Witness ==
    /\ handler = "screenshot"
    /\ Len(trace) = 1
    /\ trace[1].resp = NoResp
    /\ err = Disconnected

\* C11: a pause-toggle, restart or screenshot request (with the query-status,
\* stop, cont, system_reset or screendump commands it sends) leaves the
\* process handle, the connection object and isRunning as they were, whether
\* the command succeeds or fails; only start() and stop() change them.
C11_CommandsKeepOwnership ==
    [][/\ (\/ onPauseButtonClicked
           \/ onRestartButtonClicked
           \/ onScreenshotButtonClicked) =>
              (UNCHANGED <<p, qmp>> /\ isRunning' = isRunning)
       /\ (p' # p \/ qmp' # qmp) => (SpawnStep \/ ConnectStep \/ StopCalled)]_vars

\* A restart request that failed with a protocol error, the process still owned
C11_Witness ==
    /\ handler = "restart"
    /\ err = Disconnected
    /\ isRunning
    /\ qmp.connected

\* start() failed in a check_path call
ValidationFailed == StartFailed /\ trace[Len(trace)].ev = "check"

\* start() got past the checks
ValidationPassed ==
    StartCalled /\ (pc \in {"spawn", "connect"} \/ Count(trace, "spawn") >= 1)

\* C12 as stated: validation passes exactly when every active path is an
\* existing non-directory, and otherwise fails on the first invalid field in
\* checking order with an error that identifies the field name and the path.
C12_ErrorNamesFieldAndPath ==
    /\ ValidationPassed <=>
          (StartCalled /\ \A f \in ActiveFields(settings) :
              \E m \in 1..Len(trace) :
                  trace[m].ev = "check" /\ trace[m].arg = f /\ trace[m].res = "file")
    /\ ValidationFailed =>
          LET last == trace[Len(trace)] IN
          /\ \E n \in 1..Len(err) : err[n] = last.arg
          /\ \E n \in 1..Len(err) : err[n] = settings[last.arg]

\* C12 amended: validation passes exactly when every active path is an
\* existing non-directory (dvd_path is active, and checked, only if
\* dvd_present is set); otherwise it fails on the first invalid field in
\* checking order, with the error 'File <path> could not be found!' that
\* identifies the path of that field and not its name.
C12_ValidationFailsFast ==
    StartCalled =>
        /\ \A n \in 1..Count(trace, "check") :
              trace[n + 1].ev = "check" /\ trace[n + 1].arg = CheckOrder[n]
        /\ \A n \in 1..Len(trace) :
              trace[n].ev = "check" => trace[n].arg \in ActiveFields(settings)
        /\ ValidationPassed <=>
              \A f \in ActiveFields(settings) :
                  \E m \in 1..Len(trace) :
                      trace[m].ev = "check" /\ trace[m].arg = f /\ trace[m].res = "file"
        /\ (pc = "idle" /\ ~ValidationPassed) => ValidationFailed
        /\ ValidationFailed =>
              LET last == trace[Len(trace)] IN
              /\ last.res \in {"dir", "missing"}
              /\ \A m \in 1..(Len(trace) - 1) :
                    trace[m].ev = "check" => trace[m].res = "file"
              /\ err = <<"File ", settings[last.arg], " could not be found!">>
              /\ \A n \in 1..Len(err) : err[n] # last.arg

\* The disc path, checked last because the disc is present, is a directory
C12_Witness ==
    /\ ValidationFailed
    /\ Count(trace, "check") = 5
    /\ trace[Len(trace)].arg = "dvd_path"
    /\ trace[Len(trace)].res = "dir"
    /\ err = <<"File ", settings.dvd_path, " could not be found!">>

OutputPaths == {"screenshot.ppm", "/tmp/shot.ppm"}

\* What the pause, continue, restart and queryStatus operations send
PlainRequests ==
    {[execute |-> name, arguments |-> {}] :
        name \in {"stop", "cont", "system_reset", "query-status"}}

\* Each operation sends one request, and a failure ends the handler with it
OneShotRequests ==
    /\ \A n \in 1..Len(trace) :
          trace[n].ev = "run_cmd" =>
              (trace[n].out # "value" => (n = Len(trace) /\ err = <<trace[n].out>>))
    /\ (handler = "restart" /\ p # None) =>
          trace = <<trace[1]>> /\ trace[1].req = [execute |-> "system_reset", arguments |-> {}]
    /\ (handler = "pause" /\ p # None) =>
          /\ Len(trace) \in {1, 2}
          /\ trace[1].req = [execute |-> "query-status", arguments |-> {}]
          /\ Len(trace) = 2 =>
                trace[2].req \in {[execute |-> "stop", arguments |-> {}],
                                  [execute |-> "cont", arguments |-> {}]}
    /\ (handler = "screenshot" /\ p # None) =>
          Len(trace) = 1 /\ trace[1].req.execute = "screendump"

\* C14 as stated: each operation is one request without retry whose failure
\* propagates, with the command names given, and screenshot(outputPath) sends
\* screendump with {filename: outputPath} for whichever path the caller asks.
C14_ScreenshotToCallerPath ==
    /\ OneShotRequests
    /\ \A outputPath \in OutputPaths :
          (handler = "screenshot" /\ p # None) =>
              trace[1].req.arguments = {<<"filename", outputPath>>}

\* C14 amended: each operation is one request without retry whose failure
\* propagates: pause sends "stop", continue "cont", restart "system_reset",
\* queryStatus "query-status", each with an empty argument mapping, and
\* screenshot(), which takes no path, sends "screendump" with
\* {filename: "screenshot.ppm"}.
C14_ScreenshotToFixedPath ==
    /\ OneShotRequests
    /\ \A n \in 1..Len(trace) :
          trace[n].ev = "run_cmd" =>
              \/ trace[n].req \in PlainRequests
              \/ trace[n].req = [execute |-> "screendump",
                                 arguments |-> {<<"filename", "screenshot.ppm">>}]
    /\ (handler = "screenshot" /\ p # None) =>
          trace[1].req.arguments = {<<"filename", "screenshot.ppm">>}

\* A screenshot request that was answered
C14_Witness ==
    /\ handler = "screenshot"
    /\ p # None
    /\ Len(trace) = 1
    /\ trace[1].req.execute = "screendump"
    /\ trace[1].resp.kind = "return"
    /\ err = NoError

\* The fragments of one argument
Fragments(arg) == {arg[n] : n \in 1..Len(arg)}

\* C15: the command line start() builds depends on the settings only; its
\* cdrom drive argument carries a ",file=" fragment iff dvd_present, and the
\* path after it is then exactly dvd_path; ",locked" is in the disk drive
\* argument iff hdd_locked and ",short_animation" in the machine argument iff
\* short_anim.
C15_CmdFollowsFlags ==
    pc = "spawn" =>
        /\ Len(cmd) = 19
        /\ cmd[16] = <<"-drive">>
        /\ cmd[17][1] = "index=1,media=cdrom"
        /\ (",file=" \in Fragments(cmd[17])) <=> settings.dvd_present
        /\ settings.dvd_present =>
              cmd[17] = <<"index=1,media=cdrom", ",file=", settings.dvd_path>>
        /\ ~settings.dvd_present =>
              \A n \in 1..Len(cmd) : Fragments(cmd[n]) \cap DvdPaths = {}
        /\ cmd[15][1] = "file="
        /\ cmd[15][2] = settings.hdd_path
        /\ (",locked" \in Fragments(cmd[15])) <=> settings.hdd_locked
        /\ cmd[5][1] = "xbox,bootrom="
        /\ cmd[5][2] = settings.mcpx_path
        /\ (",short_animation" \in Fragments(cmd[5])) <=> settings.short_anim

\* Built for a present disc at the second path, unlocked disk, short animation
C15_Witness ==
    /\ pc = "spawn"
    /\ settings.dvd_present
    /\ settings.dvd_path = "/other/disc.iso"
    /\ ~settings.hdd_locked
    /\ settings.short_anim
    /\ cmd[17][3] = "/other/disc.iso"

\* C16: isRunning is true exactly when a child was spawned by start() and
\* stop() has not been called on it since, whatever happened to the peer, to
\* the connection attempts or to the commands sent.
C16_RunningIffSpawnedNotStopped ==
    isRunning <=> (\E c \in 1..spawned : termCount[c] = 0)

\* The peer went away and a command failed: isRunning is still true
C16_Witness ==
    /\ isRunning
    /\ pc = "idle"
    /\ qmp.connected
    /\ ~peerOpen
    /\ err = Disconnected

\* C17: the connect loop of start() always comes to an end, by connecting or
\* by raising, and performs at most 5 one-second delays in one start() call.
C17_ConnectLoopBounded ==
    /\ [](Delays <= 5)
    /\ (pc = "connect") ~> (pc = "idle")

\* The loop gave up after five delays
C17_Witness ==
    /\ ConnectExhausted
    /\ Delays = 5

\* C18: every protocol command is sent through a client whose connect()
\* succeeded and which was created for the process currently owned.
C18_CommandsOnlyWhenConnected ==
    \A n \in 1..Len(trace) :
        trace[n].ev = "run_cmd" =>
            /\ p # None
            /\ qmp # NoQmp
            /\ qmp.connected
            /\ qmp.owner = p

\* C19: once a run-button click has been handled, the run button reads
\* 'Stop' exactly when isRunning is true and 'Start' exactly when it is false.
C19_RunLabelAgrees ==
    (handler = "run" /\ pc = "idle") =>
        /\ (runLabel = "Stop") <=> isRunning
        /\ (runLabel = "Start") <=> ~isRunning

\* C20: when the application has exited through the Exit action, every child
\* that was spawned has been sent a terminate request.
C20_ExitTerminatesAll ==
    pc = "exited" => \A c \in 1..spawned : termCount[c] >= 1

\* Exit after a second start that failed at the connect step
C20_Witness ==
    /\ pc = "exited"
    /\ spawned = 2
    /\ qmp.owner = 2
    /\ ~qmp.connected
    /\ Count(trace, "terminate") = 1

====
